---- MODULE Spec2Model ----
(***************************************************************************)
(* Two Streamlit scripts of gpt-md-classifier:                             *)
(*   gpt_md_classifier_app.py  ("tag" pipeline): upload .md files, ask a   *)
(*       chat model for tags in a thread pool, bucket files by tag, zip.   *)
(*   app.py                    ("emb" pipeline): upload pdf/md/txt, embed, *)
(*       k-means, zip.                                                     *)
(* One script run is a sequence of steps of the main thread (pc), with the *)
(* pool's worker tasks of the tag pipeline interleaved.                    *)
(*                                                                         *)
(* Text is a sequence of code points, bytes a sequence of 0..255, a chat   *)
(* reply a sequence of lines, a line a sequence of tokens.                 *)
(***************************************************************************)
EXTENDS Integers, Sequences, FiniteSets, TLC

\* ------------------------------------------------------------------ bounds
MaxFiles == 3

\* names a user can upload to the tag pipeline (uploader type="md")
Names == {"a.md", "b.md", "README.md"}
\* names a user can upload to the embedding pipeline (pdf, md, txt)
EmbNames == {"a.pdf", "b.pdf", "n.md", "t.txt"}
\* byte contents of an upload to the embedding pipeline; of a pdf, one byte
\* per page: 0 is a page without extractable text, b a page whose text is b
EmbContents == {<<32>>, <<104>>, <<0, 105>>}

\* ----------------------------------------------------------------- helpers
Range(s) == {s[i] : i \in DOMAIN s}

Min(a, b) == IF a < b THEN a ELSE b

SeqsUpTo(S, n) == UNION {[1..k -> S] : k \in 0..n}

Count(s, x) == Cardinality({i \in DOMAIN s : s[i] = x})

RECURSIVE Flatten(_)
Flatten(ss) == IF ss = <<>> THEN <<>> ELSE Head(ss) \o Flatten(Tail(ss))

EmptyMap == [p \in {} |-> <<>>]

\* bytes.decode("utf-8") for one- and two-byte sequences
RECURSIVE ValidUtf8(_)
ValidUtf8(b) ==
    IF b = <<>> THEN TRUE
    ELSE IF b[1] < 128 THEN ValidUtf8(Tail(b))
    ELSE IF b[1] \in 194..223 /\ Len(b) >= 2 /\ b[2] \in 128..191
         THEN ValidUtf8(Tail(Tail(b)))
         ELSE FALSE

RECURSIVE Decode(_)
Decode(b) ==
    IF b = <<>> THEN <<>>
    ELSE IF b[1] < 128 THEN <<b[1]>> \o Decode(Tail(b))
    ELSE <<(b[1] - 192) * 64 + (b[2] - 128)>> \o Decode(Tail(Tail(b)))

\* what open(path, "w", encoding="utf-8").write(text) leaves on disk
RECURSIVE Encode(_)
Encode(t) ==
    IF t = <<>> THEN <<>>
    ELSE IF t[1] < 128 THEN <<t[1]>> \o Encode(Tail(t))
    ELSE <<192 + (t[1] \div 64), 128 + (t[1] % 64)>> \o Encode(Tail(t))

\* the i-th upload of the tag pipeline: every upload has its own content
UploadBytes(i) == IF i % 2 = 1 THEN <<96 + i>> ELSE <<195, 160 + i>>

Whitespace == {9, 10, 13, 32}

\* not text.strip()
IsBlank(text) == \A i \in DOMAIN text : text[i] \in Whitespace

\* ------------------------------------------------- extract_tags (tag app)
\* A chat reply: ok = FALSE when the request raises, else lines holds
\* res.choices[0].message.content.strip().split("\n"). "Tag_ko:" stands for
\* the Korean label of the prompt.
Reply(lines) == [ok |-> TRUE, lines |-> lines]

Responses ==
    { [ok |-> FALSE, lines |-> <<>>],
      Reply(<< <<"note">> >>),
      Reply(<< <<"Tags:", " ", "x">> >>),
      Reply(<< <<"note">>, <<"Tags:", " ", "X", ",", " ", "y">> >>),
      Reply(<< <<"Tags:", "x">>, <<"Tag_ko:", "y", ",", " ">> >>),
      Reply(<< <<"Tags:", " ", "z", " ", ",", "Z">>, <<"note">> >>) }

HasColon(tok) == tok \in {"Tags:", "Tag_ko:", ":"}

\* "Tag_ko:" in line or "Tags:" in line
IsTagLine(line) == \E i \in DOMAIN line : line[i] \in {"Tags:", "Tag_ko:"}

\* line.split(":", 1)[1]
AfterFirstColon(line) ==
    LET k == CHOOSE i \in DOMAIN line :
                 HasColon(line[i]) /\ \A j \in 1..(i - 1) : ~HasColon(line[j])
    IN SubSeq(line, k + 1, Len(line))

\* tag_str.split(",")
RECURSIVE SplitComma(_, _)
SplitComma(toks, cur) ==
    IF toks = <<>> THEN <<cur>>
    ELSE IF Head(toks) = "," THEN <<cur>> \o SplitComma(Tail(toks), <<>>)
    ELSE SplitComma(Tail(toks), Append(cur, Head(toks)))

\* t.strip()
RECURSIVE Strip(_)
Strip(piece) ==
    IF piece = <<>> THEN <<>>
    ELSE IF Head(piece) = " " THEN Strip(Tail(piece))
    ELSE IF piece[Len(piece)] = " " THEN Strip(SubSeq(piece, 1, Len(piece) - 1))
    ELSE piece

\* .lower()
LowerTok(tok) ==
    CASE tok = "X" -> "x"
      [] tok = "Y" -> "y"
      [] tok = "Z" -> "z"
      [] OTHER -> tok

Lower(piece) == [i \in DOMAIN piece |-> LowerTok(piece[i])]

\* [t.strip().lower() for t in tag_str.split(",") if t.strip()]
TagsOfLine(line) ==
    LET pieces == SplitComma(AfterFirstColon(line), <<>>)
        kept == SelectSeq(pieces, LAMBDA p : Strip(p) # <<>>)
    IN [i \in DOMAIN kept |-> Lower(Strip(kept[i]))]

\* the loop over the lines: the last tag line decides
RECURSIVE ScanLines(_, _)
ScanLines(lines, tags) ==
    IF lines = <<>> THEN tags
    ELSE ScanLines(Tail(lines),
                   IF IsTagLine(Head(lines)) THEN TagsOfLine(Head(lines)) ELSE tags)

\* except Exception: return []
TagsOnError(resp) == <<>>

extract_tags(resp) ==
    IF ~resp.ok THEN TagsOnError(resp) ELSE ScanLines(resp.lines, <<>>)

\* ------------------------------------------------ group_by_tags (tag app)
\* tag_to_files: a dict in insertion order, here a sequence of [tag, files]
RECURSIVE AddTags(_, _, _)
AddTags(map, info, tags) ==
    IF tags = <<>> THEN map
    ELSE LET tag == Head(tags)
             at == {k \in DOMAIN map : map[k].tag = tag}
             next == IF at = {}
                     THEN Append(map, [tag |-> tag, files |-> <<info>>])
                     ELSE LET k == CHOOSE k \in at : TRUE
                          IN [map EXCEPT ![k].files = Append(@, info)]
         IN AddTags(next, info, Tail(tags))

RECURSIVE TagToFiles(_, _)
TagToFiles(infos, map) ==
    IF infos = <<>> THEN map
    ELSE TagToFiles(Tail(infos), AddTags(map, Head(infos), Head(infos).tags))

\* f"Group {group_num}: {tag}"
GroupName(group_num, tag) == <<"Group", " ", ToString(group_num), ":", " ">> \o tag

\* [f for f in files if f["filename"] not in used]
UnclaimedKeepAll(files, used) == files

Unclaimed(files, used) == SelectSeq(files, LAMBDA f : f.filename \notin used)

\* group_num after one tag has been visited
NextNum(group_num, group_files) ==
    IF group_files = <<>> THEN group_num ELSE group_num + 1

RECURSIVE GroupLoop(_, _, _, _)
GroupLoop(map, grp, used, group_num) ==
    IF map = <<>> THEN grp
    ELSE LET tag == Head(map).tag
             group_files == Unclaimed(Head(map).files, used)
             entry == [name |-> GroupName(group_num, tag),
                       files |-> [i \in DOMAIN group_files |-> group_files[i].filename],
                       keywords |-> UNION {Range(group_files[i].tags) : i \in DOMAIN group_files}]
         IN IF group_files = <<>>
            THEN GroupLoop(Tail(map), grp, used, NextNum(group_num, group_files))
            ELSE GroupLoop(Tail(map), Append(grp, entry),
                           used \cup {group_files[i].filename : i \in DOMAIN group_files},
                           NextNum(group_num, group_files))

group_by_tags(infos) == GroupLoop(TagToFiles(infos, <<>>), <<>>, {}, 1)

\* --------------------------------------------------------- archive (both)
\* A path below the scratch directory is <<folder, filename>>; a file content
\* is [kind, data]: an upload's bytes, or a generated README.
Doc(bytes) == [kind |-> "doc", data |-> bytes]

Readme(data) == [kind |-> "readme", data |-> data]

\* topic.replace(" ", "_")
Folder(topic) == [i \in DOMAIN topic |-> IF topic[i] = " " THEN "_" ELSE topic[i]]

\* the file system after a sequence of writes [path, content]: a later write
\* to a path replaces the earlier one
RECURSIVE FsAfter(_, _)
FsAfter(fs, writes) ==
    IF writes = <<>> THEN fs
    ELSE LET w == Head(writes)
         IN FsAfter([p \in DOMAIN fs \cup {w.path} |->
                        IF p = w.path THEN w.content ELSE fs[p]],
                    Tail(writes))

\* next((f for f in file_infos if f["filename"] == fname), None)
Match(infos, fname) ==
    LET at == {i \in DOMAIN infos : infos[i].filename = fname}
    IN IF at = {} THEN <<>>
       ELSE <<infos[CHOOSE i \in at : \A j \in at : i <= j]>>

\* the writes of one iteration of the loop over grouped.items(): the README,
\* then each member under its filename, the text encoded as UTF-8
GroupWrites(infos, g) ==
    <<[path |-> <<Folder(g.name), "README.md">>,
       content |-> Readme([topic |-> g.name, keywords |-> g.keywords, files |-> g.files])]>>
    \o Flatten([j \in DOMAIN g.files |->
         LET m == Match(infos, g.files[j])
         IN IF m = <<>> THEN <<>>
            ELSE <<[path |-> <<Folder(g.name), g.files[j]>>,
                    content |-> Doc(Encode(m[1].content))]>>])

\* zipf.write(file, arcname) for each file of saved: one entry per element of
\* saved, holding what is at that path when the zip is written. The archive
\* maps an arcname to the contents of the entries stored under it, in order.
ZipEntries(fs, saved) ==
    [p \in Range(saved) |-> [k \in 1..Count(saved, p) |-> fs[p]]]

\* ------------------------------------------------------------------- state
VARIABLES
    app,             \* which script runs: "tag" or "emb"
    pc,              \* position of the main thread in the script run
    error,           \* the exception that ended the run, "" if none
    uploaded_files,  \* the uploader's files, [name, bytes]
    idx,             \* index of the loop over uploaded_files / grouped
    seen,            \* tag: names already submitted
    future_to_file,  \* tag: the submitted futures, [filename, content]
    results,         \* tag: future index -> tags, for the completed tasks
    collected,       \* tag: future indices as_completed has yielded
    file_infos,      \* tag: [filename, content, tags] in collection order
    grouped,         \* tag: the groups, in creation order
    saved_files,     \* tag: the paths written, in order
    session,         \* tag: st.session_state
    temp_exists,     \* tag: the mkdtemp directory exists
    files,           \* tag: path -> content, the files below the directory
    zip_exists,      \* tag: the zip file exists in the directory
    archive,         \* tag: the entries of the zip file on disk
    download,        \* what the download button offers, [offered, data]
    texts,           \* emb: per processed upload, the text extracted
    raw_files,       \* emb: [name, raw_bytes, text] of the embedded uploads
    slider,          \* emb: the arguments of st.slider, [lo, hi, value]
    n_clusters,      \* emb: the slider's return value, 0 before it
    clustered_docs,  \* emb: [label, docs] in first-seen order
    zip_bytes        \* emb: the return value of create_cluster_zip

vars == <<app, pc, error, uploaded_files, idx, seen, future_to_file, results,
          collected, file_infos, grouped, saved_files, session, temp_exists,
          files, zip_exists, archive, download, texts, raw_files, slider,
          n_clusters, clustered_docs, zip_bytes>>

tagLocals == <<seen, future_to_file, results, collected, file_infos, grouped, saved_files>>
tagDisk == <<temp_exists, files, zip_exists, archive>>
embVars == <<texts, raw_files, slider, n_clusters, clustered_docs, zip_bytes>>

ZipPath == "tag_grouped_markdowns.zip"

NoSession == [zip_path |-> "", analysis_done |-> FALSE]

NoDownload == [offered |-> FALSE, valid |-> FALSE, entries |-> EmptyMap]

\* b""
EmptyBytes == [valid |-> FALSE, entries |-> EmptyMap]

TagUploads ==
    {[i \in DOMAIN ns |-> [name |-> ns[i], bytes |-> UploadBytes(i)]] :
        ns \in SeqsUpTo(Names, MaxFiles)}

EmbUploads == SeqsUpTo([name : EmbNames, bytes : EmbContents], MaxFiles)

Init ==
    /\ app \in {"tag", "emb"}
    /\ uploaded_files \in (IF app = "tag" THEN TagUploads ELSE EmbUploads)
    /\ pc = "start"
    /\ error = ""
    /\ idx = 1
    /\ seen = {}
    /\ future_to_file = <<>>
    /\ results = EmptyMap
    /\ collected = {}
    /\ file_infos = <<>>
    /\ grouped = <<>>
    /\ saved_files = <<>>
    /\ session = NoSession
    /\ temp_exists = FALSE
    /\ files = EmptyMap
    /\ zip_exists = FALSE
    /\ archive = EmptyMap
    /\ download = NoDownload
    /\ texts = <<>>
    /\ raw_files = <<>>
    /\ slider = [lo |-> 0, hi |-> 0, value |-> 0]
    /\ n_clusters = 0
    /\ clustered_docs = <<>>
    /\ zip_bytes = EmptyBytes

\* --------------------------------------------------- tag pipeline: actions
\* The download box, rendered at the start of every run of the script.
RenderDownloadBox ==
    /\ app = "tag" /\ pc = "start"
    /\ IF session.analysis_done /\ session.zip_path # ""
       THEN IF temp_exists /\ zip_exists
            THEN /\ download' = [offered |-> TRUE, valid |-> TRUE, entries |-> archive]
                 /\ pc' = "check"
                 /\ error' = error
            ELSE /\ pc' = "crashed"
                 /\ error' = "FileNotFoundError"
                 /\ download' = download
       ELSE /\ pc' = "check"
            /\ UNCHANGED <<download, error>>
    /\ UNCHANGED <<app, uploaded_files, idx, session>>
    /\ UNCHANGED <<tagLocals, tagDisk, embVars>>

\* if uploaded_files and not st.session_state.analysis_done
StartAnalysis ==
    /\ app = "tag" /\ pc = "check"
    /\ pc' = IF uploaded_files # <<>> /\ ~session.analysis_done THEN "submit" ELSE "idle"
    /\ UNCHANGED <<app, error, uploaded_files, idx, session, download>>
    /\ UNCHANGED <<tagLocals, tagDisk, embVars>>

\* if name in seen: continue
IsSeen(name, names) == name \in names

\* One iteration of the loop that submits a task per distinct filename.
Submit ==
    /\ app = "tag" /\ pc = "submit"
    /\ IF idx > Len(uploaded_files)
       THEN /\ pc' = "collect"
            /\ UNCHANGED <<idx, seen, future_to_file>>
       ELSE LET file == uploaded_files[idx]
            IN /\ idx' = idx + 1
               /\ pc' = pc
               /\ IF IsSeen(file.name, seen)
                  THEN UNCHANGED <<seen, future_to_file>>
                  ELSE /\ seen' = seen \cup {file.name}
                       /\ future_to_file' = Append(future_to_file,
                              [filename |-> file.name, content |-> Decode(file.bytes)])
    /\ UNCHANGED <<app, error, uploaded_files, session, download>>
    /\ UNCHANGED <<results, collected, file_infos, grouped, saved_files>>
    /\ UNCHANGED <<tagDisk, embVars>>

\* A worker thread finishes extract_tags for one submitted future.
Complete ==
    /\ app = "tag"
    /\ \E k \in DOMAIN future_to_file \ DOMAIN results :
       \E resp \in Responses :
          results' = [j \in DOMAIN results \cup {k} |->
                         IF j = k THEN extract_tags(resp) ELSE results[j]]
    /\ UNCHANGED <<app, pc, error, uploaded_files, idx, session, download>>
    /\ UNCHANGED <<seen, future_to_file, collected, file_infos, grouped, saved_files>>
    /\ UNCHANGED <<tagDisk, embVars>>

\* info = future_to_file[future]
InfoOf(ftf, k) == ftf[k]

\* One iteration of the as_completed loop.
Collect ==
    /\ app = "tag" /\ pc = "collect"
    /\ \E k \in DOMAIN results \ collected :
          /\ collected' = collected \cup {k}
          /\ file_infos' = Append(file_infos,
                 [filename |-> InfoOf(future_to_file, k).filename,
                  content |-> InfoOf(future_to_file, k).content,
                  tags |-> results[k]])
    /\ UNCHANGED <<app, pc, error, uploaded_files, idx, session, download>>
    /\ UNCHANGED <<seen, future_to_file, results, grouped, saved_files>>
    /\ UNCHANGED <<tagDisk, embVars>>

\* as_completed has yielded every future and the with block has ended
PoolDrainedAlways(ftf, coll) == TRUE

PoolDrained(ftf, coll) == coll = DOMAIN ftf

\* grouped = group_by_tags(file_infos); temp_dir = tempfile.mkdtemp()
Group ==
    /\ app = "tag" /\ pc = "collect"
    /\ PoolDrained(future_to_file, collected)
    /\ grouped' = group_by_tags(file_infos)
    /\ temp_exists' = TRUE
    /\ saved_files' = <<>>
    /\ idx' = 1
    /\ pc' = "build"
    /\ UNCHANGED <<app, error, uploaded_files, session, download>>
    /\ UNCHANGED <<seen, future_to_file, results, collected, file_infos>>
    /\ UNCHANGED <<files, zip_exists, archive, embVars>>

\* One iteration of the loop over grouped.items(): makedirs, the README, the
\* members. A filesystem error at write number n + 1 leaves the first n writes
\* and ends the run (nothing catches it).
BuildGroup ==
    /\ app = "tag" /\ pc = "build" /\ idx <= Len(grouped)
    /\ LET writes == GroupWrites(file_infos, grouped[idx])
       IN \E n \in 0..Len(writes) :
            /\ files' = FsAfter(files, SubSeq(writes, 1, n))
            /\ saved_files' = saved_files \o [j \in 1..n |-> writes[j].path]
            /\ IF n = Len(writes)
               THEN /\ idx' = idx + 1
                    /\ UNCHANGED <<pc, error>>
               ELSE /\ pc' = "crashed"
                    /\ error' = "OSError"
                    /\ idx' = idx
    /\ UNCHANGED <<app, uploaded_files, session, download>>
    /\ UNCHANGED <<seen, future_to_file, results, collected, file_infos, grouped>>
    /\ UNCHANGED <<temp_exists, zip_exists, archive, embVars>>

\* with zipfile.ZipFile(zip_path, "w") as zipf: zipf.write(...) for each saved
\* file. An error after n entries leaves a zip with n entries and ends the run.
WriteZip ==
    /\ app = "tag" /\ pc = "build" /\ idx > Len(grouped)
    /\ zip_exists' = TRUE
    /\ \E n \in 0..Len(saved_files) :
         /\ archive' = ZipEntries(files, SubSeq(saved_files, 1, n))
         /\ IF n = Len(saved_files)
            THEN /\ pc' = "store"
                 /\ error' = error
            ELSE /\ pc' = "crashed"
                 /\ error' = "OSError"
    /\ UNCHANGED <<app, uploaded_files, idx, session, download>>
    /\ UNCHANGED <<tagLocals, temp_exists, files, embVars>>

\* st.session_state.zip_path = zip_path; analysis_done = True; ...
StoreSession ==
    /\ app = "tag" /\ pc = "store"
    /\ session' = [zip_path |-> ZipPath, analysis_done |-> TRUE]
    /\ pc' = "rmtree"
    /\ UNCHANGED <<app, error, uploaded_files, idx, download>>
    /\ UNCHANGED <<tagLocals, tagDisk, embVars>>

\* shutil.rmtree(temp_dir)
Rmtree ==
    /\ app = "tag" /\ pc = "rmtree"
    /\ temp_exists' = FALSE
    /\ files' = EmptyMap
    /\ zip_exists' = FALSE
    /\ archive' = EmptyMap
    /\ pc' = "finished"
    /\ UNCHANGED <<app, error, uploaded_files, idx, session, download>>
    /\ UNCHANGED <<tagLocals, embVars>>

\* Any later interaction reruns the script: the locals are gone, the session
\* state and the disk stay.
Rerun ==
    /\ app = "tag" /\ pc = "finished"
    /\ pc' = "start"
    /\ idx' = 1
    /\ seen' = {}
    /\ future_to_file' = <<>>
    /\ results' = EmptyMap
    /\ collected' = {}
    /\ file_infos' = <<>>
    /\ grouped' = <<>>
    /\ saved_files' = <<>>
    /\ UNCHANGED <<app, error, uploaded_files, session, download>>
    /\ UNCHANGED <<tagDisk, embVars>>

\* ------------------------------------------- embedding pipeline: functions
\* name.lower().endswith(...)
ExtOf(name) ==
    CASE name \in {"a.pdf", "b.pdf"} -> ".pdf"
      [] name = "n.md" -> ".md"
      [] name = "t.txt" -> ".txt"
      [] OTHER -> ""

\* file.read() on the upload's stream: the bytes from the position on, and
\* the position moves to the end
FileRead(bytes, pos) ==
    [data |-> SubSeq(bytes, pos + 1, Len(bytes)), pos |-> Len(bytes)]

\* "\n".join([page.extract_text() or "" for page in pdf.pages]); pdfplumber
\* seeks in the stream, so it sees the whole file whatever the position
RECURSIVE PdfText(_)
PdfText(pages) ==
    IF pages = <<>> THEN <<>>
    ELSE (IF Head(pages) = 0 THEN <<>> ELSE <<Head(pages)>>)
         \o (IF Len(pages) > 1 THEN <<10>> \o PdfText(Tail(pages)) ELSE <<>>)

extract_text_for_embedding(name, bytes, pos) ==
    IF ExtOf(name) = ".pdf" THEN PdfText(bytes)
    ELSE IF ExtOf(name) \in {".md", ".txt"}
         THEN LET data == FileRead(bytes, pos).data
              IN IF ValidUtf8(data) THEN Decode(data) ELSE <<>>
         ELSE <<>>

MinClusters == 2
MaxClusters == 10
DefaultClusters == 3

\* clustered_docs.setdefault(label, []).append(file_data), in zip order
RECURSIVE ClusterDocs(_, _, _)
ClusterDocs(labels, raws, acc) ==
    IF raws = <<>> THEN acc
    ELSE LET at == {k \in DOMAIN acc : acc[k].label = Head(labels)}
             next == IF at = {}
                     THEN Append(acc, [label |-> Head(labels), docs |-> <<Head(raws)>>])
                     ELSE LET k == CHOOSE k \in at : TRUE
                          IN [acc EXCEPT ![k].docs = Append(@, Head(raws))]
         IN ClusterDocs(Tail(labels), Tail(raws), next)

ClusterFolder(label) == <<"cluster_", ToString(label)>>

\* the writes of create_cluster_zip for one cluster: each member's raw bytes
\* under its filename, then the README with the summary
ClusterWrites(c) ==
    [j \in DOMAIN c.docs |->
        [path |-> <<ClusterFolder(c.label), c.docs[j].name>>,
         content |-> Doc(c.docs[j].raw_bytes)]]
    \o <<[path |-> <<ClusterFolder(c.label), "README.md">>,
          content |-> Readme([files |-> [j \in DOMAIN c.docs |-> c.docs[j].name]])]>>

AllClusterWrites(cd) == Flatten([k \in DOMAIN cd |-> ClusterWrites(cd[k])])

\* os.walk(temp_dir): one entry per file on disk
WalkEntries(fs) == [p \in DOMAIN fs |-> <<fs[p]>>]

\* except Exception: st.error(...); return b""
OnZipErrorPartial(partial) == [valid |-> TRUE, entries |-> partial]

OnZipError(partial) == EmptyBytes

\* ---------------------------------------------- embedding pipeline: actions
\* if uploaded_files:
EmbStart ==
    /\ app = "emb" /\ pc = "start"
    /\ pc' = IF uploaded_files # <<>> THEN "embed" ELSE "idle"
    /\ UNCHANGED <<app, error, uploaded_files, idx, session, download>>
    /\ UNCHANGED <<tagLocals, tagDisk, embVars>>

\* One iteration of the loop over uploaded_files: read, extract, embed. A
\* failing embedding request raises RuntimeError, caught only by the outer
\* except of the script.
EmbFile ==
    /\ app = "emb" /\ pc = "embed" /\ idx <= Len(uploaded_files)
    /\ LET file == uploaded_files[idx]
           rd == FileRead(file.bytes, 0)
           text == extract_text_for_embedding(file.name, file.bytes, rd.pos)
       IN /\ texts' = Append(texts, text)
          /\ IF IsBlank(text)
             THEN /\ idx' = idx + 1
                  /\ UNCHANGED <<pc, error, raw_files>>
             ELSE \E ok \in BOOLEAN :
                    IF ok
                    THEN /\ raw_files' = Append(raw_files,
                               [name |-> file.name, raw_bytes |-> rd.data, text |-> text])
                         /\ idx' = idx + 1
                         /\ UNCHANGED <<pc, error>>
                    ELSE /\ pc' = "error"
                         /\ error' = "RuntimeError: embedding"
                         /\ UNCHANGED <<idx, raw_files>>
    /\ UNCHANGED <<app, uploaded_files, session, download>>
    /\ UNCHANGED <<tagLocals, tagDisk, slider, n_clusters, clustered_docs, zip_bytes>>

\* if len(embeddings) < 2: warn and st.stop(); else st.slider(label, 2,
\* min(10, len(embeddings)), 3). Streamlit raises StreamlitAPIException when
\* the default value is outside [min_value, max_value]; otherwise the slider
\* returns the default or the value the user has set, within its range.
EmbSlider ==
    /\ app = "emb" /\ pc = "embed" /\ idx > Len(uploaded_files)
    /\ IF Len(raw_files) < MinClusters
       THEN /\ pc' = "stopped"
            /\ UNCHANGED <<error, slider, n_clusters>>
       ELSE /\ slider' = [lo |-> MinClusters,
                          hi |-> Min(MaxClusters, Len(raw_files)),
                          value |-> DefaultClusters]
            /\ IF slider'.value \in slider'.lo..slider'.hi
               THEN /\ n_clusters' \in slider'.lo..slider'.hi
                    /\ pc' = "cluster"
                    /\ error' = error
               ELSE /\ pc' = "error"
                    /\ error' = "StreamlitAPIException"
                    /\ n_clusters' = n_clusters
    /\ UNCHANGED <<app, uploaded_files, idx, session, download>>
    /\ UNCHANGED <<tagLocals, tagDisk, texts, raw_files, clustered_docs, zip_bytes>>

\* labels = cluster_embeddings(embeddings, n_clusters): KMeans gives every
\* embedding a label in 0..n_clusters-1 and raises when there are fewer
\* samples than clusters.
EmbCluster ==
    /\ app = "emb" /\ pc = "cluster"
    /\ IF n_clusters > Len(raw_files)
       THEN /\ pc' = "error"
            /\ error' = "RuntimeError: clustering"
            /\ clustered_docs' = clustered_docs
       ELSE /\ \E labels \in [DOMAIN raw_files -> 0..(n_clusters - 1)] :
                 clustered_docs' = ClusterDocs(labels, raw_files, <<>>)
            /\ pc' = "zip"
            /\ error' = error
    /\ UNCHANGED <<app, uploaded_files, idx, session, download>>
    /\ UNCHANGED <<tagLocals, tagDisk, texts, raw_files, slider, n_clusters, zip_bytes>>

\* zip_bytes = create_cluster_zip(clustered_docs): the scratch directory
\* lives inside the call. A filesystem error at write number n + 1, or while
\* zipping or reading back, goes to the except branch.
EmbZip ==
    /\ app = "emb" /\ pc = "zip"
    /\ LET writes == AllClusterWrites(clustered_docs)
       IN \E n \in 0..Len(writes), ok \in BOOLEAN :
            LET entries == WalkEntries(FsAfter(EmptyMap, SubSeq(writes, 1, n)))
            IN IF n = Len(writes) /\ ok
               THEN /\ zip_bytes' = [valid |-> TRUE, entries |-> entries]
                    /\ error' = error
               ELSE /\ zip_bytes' = OnZipError(entries)
                    /\ error' = "ZIP error shown"
    /\ pc' = "offer"
    /\ UNCHANGED <<app, uploaded_files, idx, session, download>>
    /\ UNCHANGED <<tagLocals, tagDisk, texts, raw_files, slider, n_clusters, clustered_docs>>

\* st.download_button(..., data=zip_bytes, ...)
EmbOffer ==
    /\ app = "emb" /\ pc = "offer"
    /\ download' = [offered |-> TRUE, valid |-> zip_bytes.valid, entries |-> zip_bytes.entries]
    /\ pc' = "finished"
    /\ UNCHANGED <<app, error, uploaded_files, idx, session>>
    /\ UNCHANGED <<tagLocals, tagDisk, embVars>>

\* ------------------------------------------------------------ specification
Next ==
    \/ RenderDownloadBox
    \/ StartAnalysis
    \/ Submit
    \/ Complete
    \/ Collect
    \/ Group
    \/ BuildGroup
    \/ WriteZip
    \/ StoreSession
    \/ Rmtree
    \/ Rerun
    \/ EmbStart
    \/ EmbFile
    \/ EmbSlider
    \/ EmbCluster
    \/ EmbZip
    \/ EmbOffer

Spec == Init /\ [][Next]_vars

\* ------------------------------------------------------------------ claims
\* The tag pipeline has grouped: group_by_tags has returned and the locals of
\* the run are still there.
Grouped ==
    /\ app = "tag"
    /\ \/ pc \in {"build", "store", "rmtree", "finished"}
       \/ pc = "crashed" /\ error = "OSError"

AllMembers == Flatten([k \in DOMAIN grouped |-> grouped[k].files])

\* C1: after group_by_tags, the filename of every document with at least one
\* tag occurs exactly once in the groups' member lists taken together, and
\* the filename of a document without tags occurs in none.
InvC1 ==
    Grouped =>
        \A i \in DOMAIN file_infos :
            Count(AllMembers, file_infos[i].filename)
                = (IF file_infos[i].tags # <<>> THEN 1 ELSE 0)

\* The tags in the order they are first seen scanning the documents and
\* their tag lists.
RECURSIVE Distinct(_, _)
Distinct(s, acc) ==
    IF s = <<>> THEN acc
    ELSE Distinct(Tail(s), IF Head(s) \in Range(acc) THEN acc ELSE Append(acc, Head(s)))

TagOrder == Distinct(Flatten([i \in DOMAIN file_infos |-> file_infos[i].tags]), <<>>)

PosOf(order, tag) == CHOOSE k \in DOMAIN order : order[k] = tag

\* the documents a tag claims: those carrying it and no earlier-seen tag
Claims(order, tag) ==
    {file_infos[i].filename : i \in
        {i \in DOMAIN file_infos :
            /\ tag \in Range(file_infos[i].tags)
            /\ \A t \in Range(file_infos[i].tags) : PosOf(order, tag) <= PosOf(order, t)}}

CreatingTags(order) == SelectSeq(order, LAMBDA t : Claims(order, t) # {})

ExampleInput ==
    /\ Len(file_infos) = 3
    /\ file_infos[1].tags = << <<"x">> >>
    /\ file_infos[2].tags = << <<"x">>, <<"y">> >>
    /\ file_infos[3].tags = << <<"y">> >>

\* C2: the groups are created in first-seen tag order, one per tag that
\* still has unclaimed documents, the k-th named "Group k: <tag>" and
\* holding exactly the documents that tag claims; on tags [x], [x,y], [y]
\* the result is Group 1: x = first two files, Group 2: y = the third.
InvC2 ==
    Grouped =>
        LET order == TagOrder
            creating == CreatingTags(order)
        IN /\ Len(grouped) = Len(creating)
           /\ \A k \in DOMAIN grouped :
                 /\ grouped[k].name = GroupName(k, creating[k])
                 /\ Range(grouped[k].files) = Claims(order, creating[k])
           /\ ExampleInput =>
                 /\ Len(grouped) = 2
                 /\ grouped[1].name = <<"Group", " ", "1", ":", " ", "x">>
                 /\ grouped[1].files = <<file_infos[1].filename, file_infos[2].filename>>
                 /\ grouped[2].name = <<"Group", " ", "2", ":", " ", "y">>
                 /\ grouped[2].files = <<file_infos[3].filename>>

\* C2 witness: a run in which an already claimed tag (y) is skipped between
\* two created groups.
WitC2 ==
    /\ Grouped
    /\ Len(TagOrder) = 3
    /\ Len(grouped) = 2
    /\ grouped[2].name = GroupName(2, <<"z">>)

\* C3: a failing remote feature call of one document never ends the run
\* before grouping and archive building.
InvC3 == ~(pc = "error" /\ error = "RuntimeError: embedding")

\* the bytes of the first upload called name
OriginalBytes(name) ==
    uploaded_files[CHOOSE i \in DOMAIN uploaded_files :
        /\ uploaded_files[i].name = name
        /\ \A j \in 1..(i - 1) : uploaded_files[j].name # name].bytes

HoldsOnce(entries, path, bytes) ==
    /\ path \in DOMAIN entries
    /\ Len(entries[path]) = 1
    /\ entries[path][1].kind = "doc"
    /\ entries[path][1].data = bytes

HoldsReadme(entries, path) ==
    /\ path \in DOMAIN entries
    /\ \E n \in DOMAIN entries[path] : entries[path][n].kind = "readme"

\* C4: the archive holds, for every member of every group, exactly one entry
\* <group folder>/<filename> with the document's original content, and a
\* generated README.md per group folder.
InvC4 ==
    /\ (app = "tag" /\ pc \in {"store", "rmtree"}) =>
          \A k \in DOMAIN grouped :
             /\ HoldsReadme(archive, <<Folder(grouped[k].name), "README.md">>)
             /\ \A j \in DOMAIN grouped[k].files :
                   HoldsOnce(archive, <<Folder(grouped[k].name), grouped[k].files[j]>>,
                             OriginalBytes(grouped[k].files[j]))
    /\ (app = "emb" /\ zip_bytes.valid) =>
          \A k \in DOMAIN clustered_docs :
             /\ HoldsReadme(zip_bytes.entries,
                            <<ClusterFolder(clustered_docs[k].label), "README.md">>)
             /\ \A j \in DOMAIN clustered_docs[k].docs :
                   HoldsOnce(zip_bytes.entries,
                             <<ClusterFolder(clustered_docs[k].label),
                               clustered_docs[k].docs[j].name>>,
                             clustered_docs[k].docs[j].raw_bytes)

\* C5: whenever a run of the tag script is about to offer the download
\* (analysis_done is true and zip_path is set), the archive file at zip_path
\* still exists.
InvC5 ==
    (app = "tag" /\ pc = "start" /\ session.analysis_done /\ session.zip_path # "")
        => (temp_exists /\ zip_exists)

\* C6: the text the embedding loop obtains for a .md or .txt upload with
\* valid UTF-8 bytes is the decoding of its complete bytes.
InvC6 ==
    app = "emb" =>
        \A i \in DOMAIN texts :
            (ExtOf(uploaded_files[i].name) \in {".md", ".txt"}
                /\ ValidUtf8(uploaded_files[i].bytes))
            => texts[i] = Decode(uploaded_files[i].bytes)

\* C7: once at least 2 documents are embedded and the slider is built, its
\* initial default is a cluster count k with 2 <= k <= min(10, N); clustering
\* is attempted with such a k only.
InvC7 ==
    /\ (app = "emb" /\ slider.lo # 0) =>
          slider.value \in 2..Min(10, Len(raw_files))
    /\ (app = "emb" /\ pc \in {"cluster", "zip", "offer", "finished"}) =>
          /\ Len(raw_files) >= 2
          /\ n_clusters \in 2..Min(10, Len(raw_files))

CompleteTag(entries) ==
    \A k \in DOMAIN grouped :
        \A f \in Range(grouped[k].files) \cup {"README.md"} :
            <<Folder(grouped[k].name), f>> \in DOMAIN entries

CompleteEmb(entries) ==
    \A k \in DOMAIN clustered_docs :
        \A f \in {clustered_docs[k].docs[j].name : j \in DOMAIN clustered_docs[k].docs}
                 \cup {"README.md"} :
            <<ClusterFolder(clustered_docs[k].label), f>> \in DOMAIN entries

\* C8: a filesystem error while building the archive abandons the build and
\* is surfaced; what create_cluster_zip returns, what the session state
\* points to and what the download button offers is never an archive that
\* lacks a group's file: it is a complete archive, or nothing (b"").
InvC8 ==
    /\ (app = "tag" /\ pc = "crashed" /\ error = "OSError") =>
          (session = NoSession /\ ~download.offered)
    /\ (app = "tag" /\ session.zip_path # "" /\ temp_exists) =>
          (zip_exists /\ CompleteTag(archive))
    /\ (app = "tag" /\ download.offered) => CompleteTag(download.entries)
    /\ app = "emb" =>
          /\ zip_bytes = EmptyBytes \/ (zip_bytes.valid /\ CompleteEmb(zip_bytes.entries))
          /\ (pc \in {"offer", "finished"} /\ ~zip_bytes.valid) => error # ""
          /\ download.offered =>
                /\ download.valid = zip_bytes.valid
                /\ download.entries = zip_bytes.entries

\* C8 witness: a build of the embedding pipeline failed after clustering,
\* and the download was offered.
WitC8 ==
    /\ app = "emb" /\ pc = "finished"
    /\ error = "ZIP error shown"
    /\ Len(clustered_docs) >= 2
    /\ download.offered /\ ~download.valid

\* the file infos had the tasks been collected in submission order
SubmissionOrderInfos ==
    [k \in DOMAIN future_to_file |->
        [filename |-> future_to_file[k].filename,
         content |-> future_to_file[k].content,
         tags |-> results[k]]]

SameGroups(g1, g2) ==
    /\ Len(g1) = Len(g2)
    /\ \A k \in DOMAIN g1 :
          /\ g1[k].name = g2[k].name
          /\ Range(g1[k].files) = Range(g2[k].files)

\* C9: for fixed documents and fixed tags per document, the groups (names
\* and member sets) do not depend on the order in which the tasks complete:
\* they are those of the run that collects in submission order.
InvC9 == Grouped => SameGroups(grouped, group_by_tags(SubmissionOrderInfos))

UploadedNames == {uploaded_files[i].name : i \in DOMAIN uploaded_files}

BarrierHolds ==
    Grouped =>
        /\ DOMAIN results = DOMAIN future_to_file
        /\ collected = DOMAIN future_to_file
        /\ Len(file_infos) = Cardinality(UploadedNames)
        /\ \A n \in UploadedNames :
              \E i \in DOMAIN file_infos, k \in DOMAIN future_to_file :
                 /\ file_infos[i].filename = n
                 /\ future_to_file[k].filename = n
                 /\ file_infos[i].tags = results[k]
                 /\ file_infos[i].content = Decode(OriginalBytes(n))

\* C10: group_by_tags starts only after every submitted task has completed
\* and been collected; file_infos then holds one entry per distinct uploaded
\* filename (first occurrence wins) with the tags its own task returned; and
\* a step that completes a worker task never changes file_infos.
ThmC10 ==
    /\ []BarrierHolds
    /\ [][(DOMAIN results \subseteq DOMAIN results' /\ DOMAIN results' # DOMAIN results)
             => file_infos' = file_infos]_vars

\* C10 witness: a repeated filename was uploaded and the tasks were
\* collected in an order other than the submission order.
WitC10 ==
    /\ Grouped
    /\ Len(uploaded_files) > Cardinality(UploadedNames)
    /\ Len(file_infos) = 2
    /\ file_infos[1].filename = future_to_file[2].filename
    /\ file_infos[1].tags # file_infos[2].tags

====
